---- MODULE Spec2Model ----
(***************************************************************************)
(* Model of the rotating file writer of writer/files/file.go (package      *)
(* fileout): the rotation decision of getWriter, the buffered writer, the  *)
(* exclusive lock d.mu, the lazily started maintenance goroutine stduffRun *)
(* with its sweep stduffHandler, and the file system they act on.          *)
(*                                                                         *)
(* Units.  Instants and durations are whole seconds (time.Minute is 60).   *)
(* Sizes are bytes.                                                        *)
(*                                                                         *)
(* Paths.  A path is a sequence of integer tokens.  GenRolaFileName yields *)
(* <<bucket, generation>> followed by the marker templog; the finalized    *)
(* path is the same sequence without the marker.                           *)
(*                                                                         *)
(* System calls.  A call whose error the code branches on has both         *)
(* outcomes in the model (createFile; os.Stat in the sweep fails when the  *)
(* path is gone; os_Stat in the probe fails exactly when the path does not *)
(* exist).  A call whose error the code drops (Flush, Close and Rename in  *)
(* close(), Remove in the sweep) fails only for the reason the model       *)
(* itself produces: a closed handle or a path that is gone.                *)
(***************************************************************************)
EXTENDS Integers, Sequences, FiniteSets, TLC

(* ------------------------------ bounds -------------------------------- *)
\* API calls (Write, Sync, Close) made in one behaviour
MaxCalls == 3
\* advances of the wall clock in one behaviour
MaxTicks == 2
\* createFile failures injected in one behaviour
MaxFaults == 1
\* the largest value drawn from globalRand.Intn(randnum)
MaxDraw == 1

(* ------------------------- program constants -------------------------- *)
defaultMaxSize == 100
defaultBufSize == 4
randnum == 10
megabyte == 1024 * 1024
\* time.Minute, in seconds
Minute == 60
Hour == 60 * Minute
\* the marker ".tmp", one token of a path
templog == <<99>>
\* the margin of the near-full test of the sweep
SizeMargin == 2048

\* dittotime = int64(5 * time.Minute) is a count of nanoseconds, 3 * 10^11;
\* it is kept as a count of seconds, to be multiplied by NanosPerSecond.
NanosPerSecond == 1000 * 1000 * 1000
dittotime == 5 * Minute

\* time.Duration.Milliseconds of a duration of d seconds
Milliseconds(d) == d * 1000

\* ms < dittotime, the comparison of line 268: a count of milliseconds on the
\* left, the raw nanosecond count of dittotime on the right.  For integers,
\* ms < k * N  iff  (ms \div N) < k  (\div rounds down).
BelowDittotime(ms) == (ms \div NanosPerSecond) < dittotime

(* ------------------------------ paths --------------------------------- *)
NoPath == <<>>
\* the working directory, for a path given without the directory of the logs
cwd == <<-2>>

\* strings.HasSuffix(p, templog)
HasSuffix(p, suf) ==
    /\ Len(p) >= Len(suf)
    /\ SubSeq(p, Len(p) - Len(suf) + 1, Len(p)) = suf

\* strings.Split(s, templog), templog being one token
RECURSIVE Split(_, _)
Split(s, sep) ==
    IF \A i \in 1..Len(s) : s[i] # sep[1]
    THEN <<s>>
    ELSE LET i == CHOOSE k \in 1..Len(s) :
                     /\ s[k] = sep[1]
                     /\ \A j \in 1..(k - 1) : s[j] # sep[1]
         IN <<SubSeq(s, 1, i - 1)>> \o Split(SubSeq(s, i + 1, Len(s)), sep)

\* the loop of rename for more than two segments
RECURSIVE renameJoin(_, _, _)
renameJoin(filenames, n, name) ==
    LET lenth == Len(filenames)
    IN IF n > lenth - 1 THEN name
       ELSE LET spe == filenames[n + 1]
                a == IF n < lenth - 2 THEN name \o spe \o templog ELSE name
                b == IF n = lenth - 2 /\ spe # NoPath THEN a \o spe ELSE a
            IN renameJoin(filenames, n + 1, b)

\* rename: the finalized form of a path ("" when it holds no marker)
rename(old) ==
    LET filenames == Split(old, templog)
        lenth == Len(filenames)
    IN IF lenth = 2 THEN filenames[1]
       ELSE IF lenth > 2 THEN renameJoin(filenames, 0, NoPath)
       ELSE NoPath

\* the time bucket of instant t for rotation interval rot
Bucket(t, rot) == IF rot > 0 THEN t \div rot ELSE 0

\* utils.GenRolaFileName(strf, t, rot, generation, tz, templog)
GenRolaFileName(t, rot, gen) == <<Bucket(t, rot), gen>> \o templog

\* lexicographic order of paths, the order filepath.Glob returns matches in
RECURSIVE PathLess(_, _)
PathLess(a, b) ==
    IF a = NoPath THEN b # NoPath
    ELSE IF b = NoPath THEN FALSE
    ELSE IF a[1] # b[1] THEN a[1] < b[1]
    ELSE PathLess(Tail(a), Tail(b))

RECURSIVE SortPaths(_)
SortPaths(S) ==
    IF S = {} THEN <<>>
    ELSE LET m == CHOOSE x \in S : \A y \in S \ {x} : PathLess(x, y)
         IN <<m>> \o SortPaths(S \ {m})

(* --------------------------- configuration ---------------------------- *)
\* the clients calling Write, Sync and Close
Procs == {"c1", "c2"}
NoOwner == "free"
\* the maintenance goroutine, as an owner of d.mu
Worker == "stduffRun"

\* lengths of the slices passed to Write
WriteLens == {megabyte \div 2, megabyte - 1024}

\* length of the k-th advance of the wall clock: in turn half a minute, which
\* stays within the bucket, and an idle stretch longer than the five minutes
\* of dittotime
ClockStep(k) == IF k % 2 = 0 THEN Minute \div 2 ELSE 6 * Minute

\* files a previous run left behind: an expired finalized file and a
\* temporary file that was never finalized
OldExpired == <<0, 1>>
OldTemp == <<-1, 0>> \o templog
LeftOver ==
    (OldExpired :> [size |-> 10, mtime |-> -(48 * Hour)])
    @@ (OldTemp :> [size |-> 10, mtime |-> -(3 * Minute)])

VARIABLES
    opt,         \* Options: maxSize, bufSize, maxAge, rotationTime, stuffunc set
    clock,       \* time.Now()
    disk,        \* existing paths -> [size, mtime]
    fr,          \* d.fr: [isnil, name]; name is what os.File.Name() returns
    hnd,         \* the handle last opened: [open, at]; at = path of its file now
    w,           \* d.w: [isnil, buf, err]; it wraps hnd
    size,        \* d.size
    generation,  \* d.generation
    currTime,    \* d.currTime
    mu,          \* owner of d.mu
    startMill,   \* d.startMill has run
    workers,     \* goroutines started with go d.stduffRun()
    tick,        \* the instant of the next tick of the goroutine's time.Tick
    oldStuff,    \* len(d.oldStuff), a channel of capacity 1
    pc,          \* position of each client
    blen,        \* len(b) of the Write in progress
    ent,         \* what the Write in progress found on entry
    ret,         \* what the last call to return returned
    wpc,         \* position of the maintenance goroutine
    matches,     \* the matches of the sweep still to visit
    pass,        \* the paths the sweep in progress or last finished deleted
    nOpen,       \* file handles open for writing
    rotations,   \* files opened by getWriter so far
    last,        \* the last rotation of getWriter: generation drawn at random,
                 \* generation the probe started from, signal sent
    closed,      \* finalized paths of the files close() has closed
    crashed,     \* the process died of a nil dereference
    calls, ticks, faults

vars == <<opt, clock, disk, fr, hnd, w, size, generation, currTime, mu,
          startMill, workers, tick, oldStuff, pc, blen, ent, ret, wpc, matches,
          pass, nOpen, rotations, last, closed, crashed, calls, ticks, faults>>

\* the zero time.Time: long before any instant of the clock
ZeroTime == -(1000 * 1000)
\* the instant the writer is constructed at
StartTime == 0

(* ------------------------------ options ------------------------------- *)
maxSize == IF opt.maxSize <= 0 THEN defaultMaxSize * megabyte
           ELSE opt.maxSize * megabyte

bufsize == IF opt.bufSize < 0 THEN 1024
           ELSE IF opt.bufSize = 0 THEN defaultBufSize * megabyte
           ELSE opt.bufSize * megabyte

\* the last branch multiplies two nanosecond counts; the options of Init
\* stay below one minute
rotationTime ==
    IF opt.rotationTime < 0 THEN 0
    ELSE IF opt.rotationTime < Minute THEN Minute
    ELSE opt.rotationTime * Minute * NanosPerSecond

maxAge == IF opt.maxAge > 0 THEN opt.maxAge * 24 * Hour ELSE 24 * 365 * Hour

\* currentTime(): the package variable holds time.Now
currentTime == clock


(* ---------------------------- file system ----------------------------- *)
Exists(p) == p \in DOMAIN disk

\* os.Rename(old, new) on the directory d
FsRename(d, old, new) ==
    IF old \in DOMAIN d
    THEN [p \in (DOMAIN d \ {old}) \cup {new} |-> IF p = new THEN d[old] ELSE d[p]]
    ELSE d

\* the handle h after os.Rename(old, new): its file moves with the rename,
\* and is unlinked when the rename replaces it
HndRename(h, d, old, new) ==
    IF old \notin DOMAIN d THEN h
    ELSE IF h.at = old THEN [h EXCEPT !.at = new]
    ELSE IF h.at = new THEN [h EXCEPT !.at = NoPath]
    ELSE h

\* os.Remove(p)
FsRemove(d, p) == [q \in DOMAIN d \ {p} |-> d[q]]
HndRemove(h, p) == IF h.at = p THEN [h EXCEPT !.at = NoPath] ELSE h

\* os.OpenFile(p, O_CREATE|O_APPEND|O_WRONLY)
FsCreate(d, p) ==
    IF p \in DOMAIN d THEN d ELSE d @@ (p :> [size |-> 0, mtime |-> clock])

\* n bytes written through handle h
FsAppend(d, h, n) ==
    IF h.at \in DOMAIN d
    THEN [d EXCEPT ![h.at] = [size |-> @.size + n, mtime |-> clock]]
    ELSE d

\* a renameFile that leaves the marker on
renameFileKeep(d, h, fullName) == [disk |-> d, hnd |-> h]

\* renameFile(fullName): [disk, hnd] after it
renameFile(d, h, fullName) ==
    LET na == rename(fullName)
    IN IF na # NoPath
       THEN [disk |-> FsRename(d, fullName, na), hnd |-> HndRename(h, d, fullName, na)]
       ELSE [disk |-> d, hnd |-> h]

(* ------------------------------- bufio -------------------------------- *)
\* (*bufio.Writer).Flush on ww wrapping h: [w, disk, err]
Flush(ww, h, d) ==
    IF ww.err THEN [w |-> ww, disk |-> d, err |-> TRUE]
    ELSE IF ww.buf = 0 THEN [w |-> ww, disk |-> d, err |-> FALSE]
    ELSE IF ~h.open THEN [w |-> [ww EXCEPT !.err = TRUE], disk |-> d, err |-> TRUE]
    ELSE [w |-> [ww EXCEPT !.buf = 0], disk |-> FsAppend(d, h, ww.buf), err |-> FALSE]

\* (*bufio.Writer).Write of n bytes: [w, disk, n, err]
BufWrite(ww, h, d, n) ==
    IF ww.err THEN [w |-> ww, disk |-> d, n |-> 0, err |-> TRUE]
    ELSE IF n <= bufsize - ww.buf
    THEN [w |-> [ww EXCEPT !.buf = @ + n], disk |-> d, n |-> n, err |-> FALSE]
    ELSE IF ww.buf = 0
    THEN \* a large write to an empty buffer goes to the file directly
         IF h.open
         THEN [w |-> ww, disk |-> FsAppend(d, h, n), n |-> n, err |-> FALSE]
         ELSE [w |-> [ww EXCEPT !.err = TRUE], disk |-> d, n |-> 0, err |-> TRUE]
    ELSE \* fill the buffer, flush it, go on with the rest
         LET room == bufsize - ww.buf
             f == Flush([ww EXCEPT !.buf = bufsize], h, d)
         IN IF f.err
            THEN [w |-> f.w, disk |-> d, n |-> room, err |-> TRUE]
            ELSE IF n - room <= bufsize
            THEN [w |-> [f.w EXCEPT !.buf = n - room], disk |-> f.disk,
                  n |-> n, err |-> FALSE]
            ELSE [w |-> f.w, disk |-> FsAppend(f.disk, h, n - room),
                  n |-> n, err |-> FALSE]

(* ------------------------------ close() ------------------------------- *)
\* a close() that leaves the file open under its temporary name
closeLeak(d) ==
    [w |-> w, hnd |-> hnd, disk |-> d, nOpen |-> nOpen, closed |-> closed,
     err |-> FALSE]

\* close() on the directory d: [w, hnd, disk, nOpen, closed, err]
close(d) ==
    LET f == IF ~w.isnil THEN Flush(w, hnd, d)
             ELSE [w |-> w, disk |-> d, err |-> FALSE]
        r == renameFile(f.disk, [hnd EXCEPT !.open = FALSE], fr.name)
    IN IF fr.isnil
       THEN [w |-> f.w, hnd |-> hnd, disk |-> f.disk, nOpen |-> nOpen,
             closed |-> closed, err |-> FALSE]
       ELSE [w |-> f.w, hnd |-> r.hnd, disk |-> r.disk,
             nOpen |-> IF hnd.open THEN nOpen - 1 ELSE nOpen,
             closed |-> closed \cup {rename(fr.name)},
             err |-> ~hnd.open]

(* ------------------------------- Init --------------------------------- *)
NoRet == [op |-> "none", n |-> 0, err |-> FALSE]
NoEnt == [size |-> 0, generation |-> 0, rotations |-> 0, over |-> FALSE,
          force |-> FALSE,
          isnil |-> TRUE, name |-> NoPath, bucket |-> 0]
NoLast == [rand |-> FALSE, from |-> -1, sent |-> FALSE]

Init ==
    /\ opt \in {[maxSize |-> 1, bufSize |-> 0, maxAge |-> 1,
                  rotationTime |-> 0, stuffunc |-> TRUE, dir |-> FALSE],
                 [maxSize |-> 1, bufSize |-> 0, maxAge |-> 1,
                  rotationTime |-> -1, stuffunc |-> FALSE, dir |-> TRUE]}
    /\ clock = StartTime
    /\ \E S \in {{}, DOMAIN LeftOver} : disk = [p \in S |-> LeftOver[p]]
    /\ fr = [isnil |-> TRUE, name |-> NoPath]
    /\ hnd = [open |-> FALSE, at |-> NoPath]
    /\ w = [isnil |-> TRUE, buf |-> 0, err |-> FALSE]
    /\ size = 0
    /\ generation = 0
    /\ currTime = ZeroTime
    /\ mu = NoOwner
    /\ startMill = FALSE
    /\ workers = 0
    /\ tick = 0
    /\ oldStuff = 0
    /\ pc = [p \in Procs |-> "idle"]
    /\ blen = [p \in Procs |-> 0]
    /\ ent = [p \in Procs |-> NoEnt]
    /\ ret = NoRet
    /\ wpc = "select"
    /\ matches = <<>>
    /\ pass = {}
    /\ nOpen = 0
    /\ rotations = 0
    /\ last = NoLast
    /\ closed = {}
    /\ crashed = FALSE
    /\ calls = 0
    /\ ticks = 0
    /\ faults = 0


(* ----------------------------- getWriter ------------------------------ *)
\* a lock that excludes nobody
AcquireUnlocked(p) == TRUE

\* d.mu.Lock() can return
Acquire(p) == mu = NoOwner

\* the triggers without the increment of the generation
DecideKeep(n) ==
    LET rot == rotationTime
        ct == IF rot > 0 THEN clock ELSE currTime
        filename == IF rot > 0 THEN GenRolaFileName(ct, rot, generation) ELSE NoPath
        over == (size + n) > maxSize
        force == fr.isnil \/ over \/ (rot > 0 /\ filename # fr.name)
    IN [currTime |-> ct, over |-> over, force |-> force,
        generation |-> generation]

\* lines 235-253: the instant read, the candidate name, the three triggers
\* and the increment of the generation, for a slice of n bytes
Decide(n) ==
    LET rot == rotationTime
        ct == IF rot > 0 THEN clock ELSE currTime
        filename == IF rot > 0 THEN GenRolaFileName(ct, rot, generation) ELSE NoPath
        over == (size + n) > maxSize
        force == fr.isnil \/ over \/ (rot > 0 /\ filename # fr.name)
    IN [currTime |-> ct, over |-> over, force |-> force,
        generation |-> IF force /\ over THEN generation + 1 ELSE generation]

\* a start of the goroutine at every rotation
startMillAgain(done, n) == n + 1

\* d.startMill.Do(...): the number of goroutines after it
startMillDo(done, n) == IF done THEN n ELSE n + 1

\* a send with no timeout
SelectSend(len) == len < 1

\* the select of lines 263-266 can proceed: the send when the channel has
\* room, time.After otherwise (a receive during the wait is a receive before
\* the select)
SelectReady(len) == TRUE

\* the channel after the select
Offered(len) == IF len < 1 THEN len + 1 ELSE len

\* line 268: the generation is drawn at random
Ditto(t, gen) == BelowDittotime(Milliseconds(t - currentTime)) /\ gen < 1

\* lines 268-270: the values the generation can have before the probe;
\* globalRand.Intn(randnum) is in 0..randnum-1, drawn here up to MaxDraw
Intn(ditto, gen) ==
    IF ditto THEN {r \in 0..(randnum - 1) : r <= MaxDraw} ELSE {gen}

\* a probe that looks for the temporary name itself
RECURSIVE ProbeTemp(_, _, _)
ProbeTemp(t, rot, g) ==
    IF Exists(GenRolaFileName(t, rot, g))
    THEN ProbeTemp(t, rot, g + 1)
    ELSE g

\* lines 271-278: the first generation from g on whose finalized name os_Stat
\* does not find
RECURSIVE Probe(_, _, _)
Probe(t, rot, g) ==
    IF Exists(rename(GenRolaFileName(t, rot, g)))
    THEN Probe(t, rot, g + 1)
    ELSE g

(* ------------------------------ clients ------------------------------- *)
\* what Write(b) of p with len(b) = n waits for, lines 387-388 and 263-266:
\* the lock, and the select of the rotation when one is due
Proceeds(p, n) ==
    /\ Acquire(p)
    /\ Decide(n).force => SelectReady(oldStuff)

\* Write(b) with len(b) = n, lines 387-392: Lock and getWriter(b, true), whose
\* file system calls are fast local operations done under the lock
Write(p, n) ==
    /\ ~crashed
    /\ pc[p] = "idle"
    /\ calls < MaxCalls
    /\ Proceeds(p, n)
    /\ calls' = calls + 1
    /\ LET d == Decide(n)
           rot == rotationTime
           found == [size |-> size, generation |-> generation,
                     rotations |-> rotations, over |-> d.over,
                     force |-> d.force,
                     isnil |-> fr.isnil, name |-> fr.name,
                     bucket |-> Bucket(d.currTime, rot)]
       IN /\ currTime' = d.currTime
          /\ IF ~d.force
             THEN \* line 299
                  /\ mu' = p
                  /\ pc' = [pc EXCEPT ![p] = "write"]
                  /\ blen' = [blen EXCEPT ![p] = n]
                  /\ ent' = [ent EXCEPT ![p] = found]
                  /\ UNCHANGED <<disk, fr, hnd, w, size, generation,
                                 startMill, workers, tick, oldStuff, ret,
                                 nOpen, rotations, last, closed, faults>>
             ELSE \* lines 255-298
                  /\ startMill' = TRUE
                  /\ workers' = startMillDo(startMill, workers)
                  /\ tick' = IF startMill THEN tick ELSE clock + rot
                  /\ oldStuff' = Offered(oldStuff)
                  /\ \E r \in Intn(Ditto(d.currTime, d.generation), d.generation) :
                       LET g == Probe(d.currTime, rot, r)
                           filename == GenRolaFileName(d.currTime, rot, g)
                       IN /\ generation' = g
                          /\ last' = [rand |-> Ditto(d.currTime, d.generation),
                                      from |-> r, sent |-> oldStuff < 1]
                          /\ \/ \* createFile fails: Write returns the error
                                /\ faults < MaxFaults
                                /\ faults' = faults + 1
                                /\ ret' = [op |-> "Write", n |-> 0, err |-> TRUE]
                                /\ UNCHANGED <<disk, fr, hnd, w, size, nOpen,
                                               rotations, closed, mu, pc,
                                               blen, ent>>
                             \/ \* createFile, close(), the swap
                                LET c == close(FsCreate(disk, filename))
                                IN /\ disk' = c.disk
                                   /\ closed' = c.closed
                                   /\ nOpen' = c.nOpen + 1
                                   /\ w' = [isnil |-> FALSE, buf |-> 0,
                                            err |-> FALSE]
                                   /\ size' = 0
                                   /\ fr' = [isnil |-> FALSE, name |-> filename]
                                   /\ hnd' = [open |-> TRUE, at |-> filename]
                                   /\ rotations' = rotations + 1
                                   /\ mu' = p
                                   /\ pc' = [pc EXCEPT ![p] = "write"]
                                   /\ blen' = [blen EXCEPT ![p] = n]
                                   /\ ent' = [ent EXCEPT ![p] = found]
                                   /\ UNCHANGED <<ret, faults>>
    /\ UNCHANGED <<opt, clock, wpc, matches, pass, crashed, ticks>>

\* Write, lines 393-395, and the deferred Unlock
WriteBytes(p) ==
    /\ ~crashed
    /\ pc[p] = "write"
    /\ LET r == BufWrite(w, hnd, disk, blen[p])
       IN /\ w' = r.w
          /\ disk' = r.disk
          /\ size' = size + r.n
          /\ ret' = [op |-> "Write", n |-> r.n, err |-> r.err]
    /\ pc' = [pc EXCEPT ![p] = "idle"]
    /\ blen' = [blen EXCEPT ![p] = 0]
    /\ ent' = [ent EXCEPT ![p] = NoEnt]
    /\ mu' = NoOwner
    /\ UNCHANGED <<opt, clock, fr, hnd, generation, currTime, startMill,
                   workers, tick, oldStuff, wpc, matches, pass, nOpen,
                   rotations, last, closed, crashed, calls, ticks, faults>>

\* Sync: d.w.Flush() under the lock; d.w is nil until the first file is opened
Sync(p) ==
    /\ ~crashed
    /\ pc[p] = "idle"
    /\ calls < MaxCalls
    /\ Acquire(p)
    /\ calls' = calls + 1
    /\ IF w.isnil
       THEN /\ crashed' = TRUE
            /\ UNCHANGED <<w, disk, ret>>
       ELSE LET f == Flush(w, hnd, disk)
            IN /\ w' = f.w
               /\ disk' = f.disk
               /\ ret' = [op |-> "Sync", n |-> 0, err |-> f.err]
               /\ UNCHANGED crashed
    /\ UNCHANGED <<opt, clock, fr, hnd, size, generation, currTime, mu,
                   startMill, workers, tick, oldStuff, pc, blen, ent, wpc, matches,
                   pass, nOpen, rotations, last, closed, ticks, faults>>

\* Close: close() under the lock
Close(p) ==
    /\ ~crashed
    /\ pc[p] = "idle"
    /\ calls < MaxCalls
    /\ Acquire(p)
    /\ calls' = calls + 1
    /\ LET c == close(disk)
       IN /\ w' = c.w
          /\ hnd' = c.hnd
          /\ disk' = c.disk
          /\ nOpen' = c.nOpen
          /\ closed' = c.closed
          /\ ret' = [op |-> "Close", n |-> 0, err |-> c.err]
    /\ UNCHANGED <<opt, clock, fr, size, generation, currTime, mu, startMill,
                   workers, tick, oldStuff, pc, blen, ent, wpc, matches, pass,
                   rotations, last, crashed, ticks, faults>>


(* ----------------------- the maintenance goroutine -------------------- *)
\* stduffRun, line 308: a signal is received; stduffHandler, line 322
WorkerRecv ==
    /\ ~crashed
    /\ wpc = "select"
    /\ workers > 0
    /\ oldStuff > 0
    /\ oldStuff' = oldStuff - 1
    /\ matches' = SortPaths(DOMAIN disk)
    /\ pass' = {}
    /\ wpc' = IF DOMAIN disk = {} THEN "select" ELSE "sweep"
    /\ UNCHANGED <<opt, clock, disk, fr, hnd, w, size, generation, currTime,
                   mu, startMill, workers, tick, pc, blen, ent, ret, nOpen,
                   rotations, last, closed, crashed, calls, ticks, faults>>

\* the age the sweep computes for a file: d.currTime.Sub(f.ModTime())
Age(f) == currTime - f.mtime

\* line 331: the file is past the retention age
Expired(f) == Age(f) > maxAge

\* lines 335-336: a temporary file that is stale or nearly full
Stale(fullName, f) ==
    /\ HasSuffix(fullName, templog)
    /\ \/ Age(f) >= rotationTime * 2
       \/ (f.size + SizeMargin) > maxSize

\* f.Name() of line 337, the base name of fullName: fullName itself when the
\* name pattern has no directory part, and otherwise a path of the working
\* directory, where no log file is
FileInfoName(fullName) == IF opt.dir THEN cwd \o fullName ELSE fullName

\* the matches left after the file at their head: none after the return of
\* line 337
Rest(ms, returns) == IF returns THEN <<>> ELSE Tail(ms)

\* where the goroutine is once ms are the matches left
After(ms) == IF ms = <<>> THEN "select" ELSE "sweep"

\* stduffHandler, lines 326-344: one iteration of the loop
SweepFile ==
    /\ ~crashed
    /\ wpc = "sweep"
    /\ LET fullName == Head(matches)
       IN IF ~Exists(fullName)
          THEN \* os.Stat fails: continue
               /\ matches' = Rest(matches, FALSE)
               /\ wpc' = After(matches')
               /\ UNCHANGED <<disk, hnd, pass>>
          ELSE LET f == disk[fullName]
               IN IF Expired(f)
                  THEN \* os.Remove: continue
                       /\ disk' = FsRemove(disk, fullName)
                       /\ hnd' = HndRemove(hnd, fullName)
                       /\ pass' = pass \cup {fullName}
                       /\ matches' = Rest(matches, FALSE)
                       /\ wpc' = After(matches')
                  ELSE IF Stale(fullName, f)
                  THEN \* return d.renameFile(f.Name())
                       LET r == renameFile(disk, hnd, FileInfoName(fullName))
                       IN /\ disk' = r.disk
                          /\ hnd' = r.hnd
                          /\ matches' = Rest(matches, TRUE)
                          /\ wpc' = After(matches')
                          /\ UNCHANGED pass
                  ELSE IF opt.stuffunc
                  THEN \* d.opt.stuffunc(fullName)
                       /\ matches' = Rest(matches, FALSE)
                       /\ wpc' = "callback"
                       /\ UNCHANGED <<disk, hnd, pass>>
                  ELSE /\ matches' = Rest(matches, FALSE)
                       /\ wpc' = After(matches')
                       /\ UNCHANGED <<disk, hnd, pass>>
    /\ UNCHANGED <<opt, clock, fr, w, size, generation, currTime, mu,
                   startMill, workers, tick, oldStuff, pc, blen, ent, ret, nOpen,
                   rotations, last, closed, crashed, calls, ticks, faults>>

\* the callback returns
CallbackReturn ==
    /\ ~crashed
    /\ wpc = "callback"
    /\ wpc' = After(matches)
    /\ UNCHANGED <<opt, clock, disk, fr, hnd, w, size, generation, currTime,
                   mu, startMill, workers, tick, oldStuff, pc, blen, ent, ret,
                   matches, pass, nOpen, rotations, last, closed, crashed,
                   calls, ticks, faults>>

\* the first tick after the instant t of a ticker due at tk with period rot
NextTick(tk, rot, t) == tk + (((t - tk) \div rot) + 1) * rot

\* stduffRun, lines 310-311: a tick with a signal pending does nothing
TickSkip ==
    /\ ~crashed
    /\ wpc = "select"
    /\ workers > 0
    /\ rotationTime > 0
    /\ clock >= tick
    /\ oldStuff # 0
    /\ tick' = NextTick(tick, rotationTime, clock)
    /\ UNCHANGED <<opt, clock, disk, fr, hnd, w, size, generation, currTime,
                   mu, startMill, workers, oldStuff, pc, blen, ent, ret, wpc,
                   matches, pass, nOpen, rotations, last, closed, crashed,
                   calls, ticks, faults>>

\* stduffRun, lines 310-315: a tick of time.Tick(d.rotationTime()) with no
\* signal pending, and getWriter(nil, false) under the lock; time.Tick of a
\* non-positive interval never ticks
DryRun ==
    /\ ~crashed
    /\ wpc = "select"
    /\ workers > 0
    /\ rotationTime > 0
    /\ clock >= tick
    /\ oldStuff = 0
    /\ Acquire(Worker)
    /\ tick' = NextTick(tick, rotationTime, clock)
    /\ LET d == Decide(0)
           rot == rotationTime
       IN /\ currTime' = d.currTime
          /\ IF ~d.force
             THEN UNCHANGED <<disk, fr, hnd, w, size, generation, startMill,
                              workers, oldStuff, nOpen, last, closed>>
             ELSE \E r \in Intn(Ditto(d.currTime, d.generation), d.generation) :
                    LET g == Probe(d.currTime, rot, r)
                        c == close(disk)
                    IN /\ startMill' = TRUE
                       /\ workers' = startMillDo(startMill, workers)
                       /\ SelectReady(oldStuff)
                       /\ oldStuff' = Offered(oldStuff)
                       /\ generation' = g
                       /\ last' = [rand |-> Ditto(d.currTime, d.generation),
                                   from |-> r, sent |-> oldStuff < 1]
                       /\ disk' = c.disk
                       /\ hnd' = c.hnd
                       /\ w' = c.w
                       /\ nOpen' = c.nOpen
                       /\ closed' = c.closed
                       /\ size' = 0
                       /\ fr' = [isnil |-> TRUE, name |-> NoPath]
    /\ UNCHANGED <<opt, clock, mu, pc, blen, ent, ret, wpc, matches, pass,
                   rotations, crashed, calls, ticks, faults>>

(* ------------------------------- clock -------------------------------- *)
Advance ==
    /\ ~crashed
    /\ ticks < MaxTicks
    /\ ticks' = ticks + 1
    /\ clock' = clock + ClockStep(ticks)
    /\ UNCHANGED <<opt, disk, fr, hnd, w, size, generation, currTime, mu,
                   startMill, workers, tick, oldStuff, pc, blen, ent, ret, wpc,
                   matches, pass, nOpen, rotations, last, closed, crashed,
                   calls, faults>>

(* ---------------------------- specification --------------------------- *)
Next ==
    \/ \E p \in Procs, n \in WriteLens : Write(p, n)
    \/ \E p \in Procs : WriteBytes(p)
    \/ \E p \in Procs : Sync(p)
    \/ \E p \in Procs : Close(p)
    \/ WorkerRecv
    \/ SweepFile
    \/ CallbackReturn
    \/ TickSkip
    \/ DryRun
    \/ Advance

Spec == Init /\ [][Next]_vars

(* ------------------------------ properties ---------------------------- *)
\* a rotation of getWriter(b, true) or getWriter(nil, false) is taking place
Rotating ==
    \/ \E p \in Procs, n \in WriteLens : Write(p, n) /\ Decide(n).force
    \/ DryRun /\ Decide(0).force

\* C1: Write, Sync, Close and the dry run of the worker exclude each other:
\* a client between getWriter and w.Write holds the lock and no other client
\* is there, the file it got from getWriter is still the one of the writer
\* when its bytes are written (no swap in between), and at most one file
\* handle is open whenever the lock is free.
C1_Serialized ==
    /\ \A p \in Procs : pc[p] = "write" =>
          /\ mu = p
          /\ \A q \in Procs \ {p} : pc[q] # "write"
          /\ ~fr.isnil
          /\ rotations = ent[p].rotations + (IF ent[p].force THEN 1 ELSE 0)
          /\ size = IF ent[p].force THEN 0 ELSE ent[p].size
    /\ nOpen <= 1
    /\ mu = NoOwner => \A p \in Procs : pc[p] = "idle"

\* C1 witness: a client is inside Write after a swap of files, the other
\* client's call has returned, and the worker is in the middle of a sweep
C1_Witness ==
    /\ pc["c1"] = "write"
    /\ ent["c1"].force
    /\ rotations >= 2
    /\ nOpen = 1
    /\ ret.op # "none"
    /\ wpc = "sweep"

\* the file of the writer is open, the slice fits and the bucket of the
\* instant of the call is the bucket of the open file
Fits(e) ==
    /\ ~e.isnil
    /\ ~e.over
    /\ rotationTime > 0 => e.bucket = e.name[1]

\* C2: a Write whose bytes fit (accumulated + len <= maxSize) in the open file
\* while the time bucket is unchanged does not rotate: the open file and the
\* generation stay the same and accumulated grows by the bytes written.
C2_FittingWriteKeepsFile ==
    [][\A p \in Procs :
          (WriteBytes(p) /\ Fits(ent[p])) =>
             /\ rotations = ent[p].rotations
             /\ fr.name = ent[p].name
             /\ generation = ent[p].generation
             /\ size' = ent[p].size + ret'.n]_vars

NewBucket ==
    /\ rotationTime > 0
    /\ ~fr.isnil
    /\ Bucket(clock, rotationTime) # fr.name[1]

\* the previous file after the rotation: closed, under its finalized name,
\* with the bytes that were buffered for it when its handle was open
Finalized ==
    LET na == rename(fr.name)
    IN /\ fr.name \notin DOMAIN disk'
       /\ na \in DOMAIN disk'
       /\ na \in closed'
       /\ nOpen' = 1
       /\ (hnd.open /\ hnd.at \in DOMAIN disk) =>
             disk'[na].size = disk[hnd.at].size + w.buf

\* the new file after the rotation: open, under a temporary name, with no
\* byte of the Write in it or in the buffer
Opened ==
    /\ fr'.name \in DOMAIN disk'
    /\ HasSuffix(fr'.name, templog)
    /\ hnd' = [open |-> TRUE, at |-> fr'.name]
    /\ w'.buf = 0
    /\ disk'[fr'.name].size =
          IF fr'.name \in DOMAIN disk THEN disk[fr'.name].size ELSE 0

FreeFrom(t, rot, g) ==
    {k \in g..(g + Cardinality(DOMAIN disk)) :
        rename(GenRolaFileName(t, rot, k)) \notin DOMAIN disk}

C6_ClosedFinalOpenTemporary ==
    /\ \A f \in closed : f \in DOMAIN disk /\ ~HasSuffix(f, templog)
    /\ (~fr.isnil /\ hnd.open) =>
          /\ HasSuffix(fr.name, templog)
          /\ fr.name \in DOMAIN disk
          /\ hnd.at = fr.name

\* the age of a file is past the retention age
Overdue(f) == (clock - f.mtime) > maxAge

\* C7: a pass of the sweep deletes the matched files whose age exceeds the
\* retention age and no other (each file it comes to is deleted exactly when
\* it is overdue, and no overdue matched file is left out of the pass), and
\* the callback is not invoked on a file deleted in the pass.
C7_SweepDeletesOverdue ==
    [][SweepFile =>
          LET fullName == Head(matches)
          IN /\ pass' \ pass \subseteq {fullName}
             /\ fullName \in DOMAIN disk =>
                   /\ fullName \in pass' <=> Overdue(disk[fullName])
                   /\ fullName \in pass' <=> fullName \notin DOMAIN disk'
             /\ wpc' = "callback" =>
                   fullName \notin pass' /\ fullName \in DOMAIN disk'
             /\ \A i \in 2..Len(matches) :
                   (matches[i] \in DOMAIN disk /\ Overdue(disk[matches[i]])) =>
                      Len(matches') >= 1]_vars

\* C8: a Write is never held up by the worker: whenever the lock is free the
\* Write of a client proceeds, rotation and its signal included, whatever
\* the worker is doing and whether or not a signal is pending; a client
\* inside Write holds the lock, and the worker does not hold it while it
\* sweeps or is inside the callback.
C8_WriteNotHeldUp ==
    /\ mu # Worker
    /\ \A p \in Procs :
          /\ (pc[p] = "idle" /\ mu = NoOwner) =>
                \A n \in WriteLens : Proceeds(p, n)
          /\ pc[p] = "write" => mu = p
    /\ wpc \in {"sweep", "callback"} => mu \in Procs \cup {NoOwner}

\* what C8_WriteNotHeldUp takes Proceeds for: a client outside the calls
\* whose Write proceeds can take the step of Write, and a client inside Write
\* can take the step that writes its bytes
C8_ProceedsIsEnabled ==
    \A p \in Procs :
          /\ (pc[p] = "idle" /\ calls < MaxCalls /\ ~crashed) =>
                \A n \in WriteLens : Proceeds(p, n) <=> ENABLED Write(p, n)
          /\ (pc[p] = "write" /\ ~crashed) => ENABLED WriteBytes(p)

\* C8 witness: a Write has rotated and goes on while the worker is inside
\* the callback and the signal of the rotation could not be sent, one being
\* pending already
C8_Witness ==
    \E p \in Procs :
        /\ pc[p] = "write"
        /\ ent[p].force
        /\ ~last.sent
        /\ oldStuff = 1
        /\ wpc = "callback"

\* C9: at most one worker goroutine exists, none before the first rotation
\* and one from the first rotation on, however many rotations follow.
C9_OneWorker ==
    /\ workers <= 1
    /\ last = NoLast => (workers = 0 /\ ~startMill /\ rotations = 0)
    /\ last # NoLast => (workers = 1 /\ startMill)

\* C9 witness: rotations of both a Write and the dry run have taken place,
\* and the worker is sweeping
C9_Witness ==
    /\ workers = 1
    /\ rotations >= 2
    /\ fr.isnil
    /\ wpc = "sweep"

\* C10: a rotation draws the generation at random only when the instant of
\* the bucket being opened is within five minutes of the start of the
\* process and the generation is 0, and the value drawn is in 0..9.
C10_RandomOnlyAfterStart ==
    [][(Rotating /\ last'.rand) =>
          /\ currTime' - StartTime <= dittotime
          /\ generation = 0
          /\ last'.from \in 0..(randnum - 1)]_vars

\* the path holds no temporary marker
MarkerFree(p) == \A i \in 1..Len(p) : p[i] # templog[1]

\* C11: the finalized form of a path without the temporary marker is that
\* path itself, so that finalizing twice is finalizing once; stated for the
\* name of the file of the writer and the names of the files it closed.
C11_FinalizeIdempotent ==
    \A p \in closed \cup (IF fr.isnil THEN {} ELSE {fr.name}) :
        /\ MarkerFree(p) => rename(p) = p
        /\ HasSuffix(p, templog) => rename(rename(p)) = rename(p)

\* the flush of d.w fails
FlushFails == ~w.isnil /\ Flush(w, hnd, disk).err

\* C12: a failure met while serving Write, Sync or Close is returned to the
\* caller of that call: a Sync whose flush fails, a Close whose flush or
\* whose close of the handle fails, and a Write whose createFile fails or
\* whose flush of the previous file fails all return an error, the Write
\* with count 0; and no flush failure of close() is dropped, so that a
\* rotation whose flush of the previous file fails is the rotation of a call
\* that returns the error.
C12_FailuresReturned ==
    [][/\ (Rotating /\ FlushFails) => (calls' = calls + 1 /\ ret'.err)
       /\ \A p \in Procs :
             (Sync(p) /\ FlushFails) => (ret'.op = "Sync" /\ ret'.err)
       /\ \A p \in Procs :
             (Close(p) /\ (FlushFails \/ close(disk).err)) =>
                (ret'.op = "Close" /\ ret'.err)
       /\ \A p \in Procs, n \in WriteLens :
             (Write(p, n) /\ Decide(n).force /\ (FlushFails \/ faults' # faults)) =>
                (pc'[p] = "idle" /\ ret' = [op |-> "Write", n |-> 0, err |-> TRUE])
       /\ \A p \in Procs :
             (WriteBytes(p) /\ BufWrite(w, hnd, disk, blen[p]).err) => ret'.err]_vars

\* C13: the effective rotation interval is 0 (time-based rotation disabled)
\* for every configured value that is not positive, zero included, one minute
\* for every positive value under one minute, and the configured value for
\* every value of one minute or more.
C13_EffectiveInterval ==
    /\ opt.rotationTime <= 0 => rotationTime = 0
    /\ (0 < opt.rotationTime /\ opt.rotationTime < Minute) => rotationTime = Minute
    /\ opt.rotationTime >= Minute => rotationTime = opt.rotationTime

\* C14: the dry-run rotation check of the worker opens and creates no file.
\* When it rotates it leaves the writer with no file and accumulated 0, the
\* file it had being closed and on disk under its finalized name, and no
\* path appears in the directory but that finalized name; when it does not
\* rotate it leaves the file, its handle, the buffer, accumulated and the
\* generation as they were.
C14_DryRunOpensNothing ==
    [][DryRun =>
          IF Decide(0).force
          THEN /\ fr'.isnil
               /\ size' = 0
               /\ nOpen' = 0
               /\ ~hnd'.open
               /\ rotations' = rotations
               /\ ~fr.isnil =>
                     /\ fr.name \notin DOMAIN disk'
                     /\ rename(fr.name) \in DOMAIN disk'
                     /\ rename(fr.name) \in closed'
               /\ DOMAIN disk' \subseteq
                     DOMAIN disk \cup (IF fr.isnil THEN {} ELSE {rename(fr.name)})
          ELSE /\ fr' = fr
               /\ hnd' = hnd
               /\ w' = w
               /\ size' = size
               /\ generation' = generation
               /\ disk' = disk]_vars

\* C14 witness: the dry run has closed the file of a Write: the writer has
\* no file, the bytes written are on disk under the finalized name and no
\* temporary file is in the directory
C14_Witness ==
    /\ fr.isnil
    /\ rotations >= 1
    /\ size = 0
    /\ nOpen = 0
    /\ \E f \in closed : f \in DOMAIN disk /\ disk[f].size > 0
    /\ \A f \in DOMAIN disk : ~HasSuffix(f, templog)

\* a file the sweep is to finalize: not past the retention age, with the
\* temporary marker, and stale (as old as two rotation intervals) or nearly
\* full
DueToFinalize(fullName, f) ==
    /\ HasSuffix(fullName, templog)
    /\ ~Overdue(f)
    /\ \/ rotationTime > 0 /\ (clock - f.mtime) >= 2 * rotationTime
       \/ (f.size + SizeMargin) > maxSize

\* C15: a pass of the sweep handles every matched file: a file it comes to
\* that is due to be finalized is on disk under its finalized name after the
\* step, and whatever is done to a file the pass goes on with the files
\* matched after it.
C15_PassHandlesEveryFile ==
    [][SweepFile =>
          LET fullName == Head(matches)
          IN /\ (fullName \in DOMAIN disk /\ DueToFinalize(fullName, disk[fullName])) =>
                   /\ fullName \notin DOMAIN disk'
                   /\ rename(fullName) \in DOMAIN disk'
             /\ matches' = Tail(matches)]_vars

\* C16: the sweep leaves the file open for writing alone: a step of the sweep
\* taken while the writer has a file open leaves that file on disk under the
\* temporary name it was opened with.
C16_SweepSparesOpenFile ==
    [][(SweepFile /\ ~fr.isnil /\ hnd.open /\ hnd.at = fr.name) =>
          /\ fr.name \in DOMAIN disk'
          /\ hnd'.at = fr.name]_vars

\* C17: a Write that finds no file open for writing opens one before it
\* accepts a byte, so that no Write reports bytes written with the handle of
\* the writer closed, and a Close that finds the handle already closed
\* returns no error.
C17_WriteOpensFile ==
    [][/\ \A p \in Procs, n \in WriteLens :
             (Write(p, n) /\ ~hnd.open /\ pc'[p] = "write") =>
                (rotations' = rotations + 1 /\ hnd'.open)
       /\ \A p \in Procs : (WriteBytes(p) /\ ret'.n > 0) => hnd.open
       /\ \A p \in Procs : (Close(p) /\ ~hnd.open) => ~ret'.err]_vars

\* C18: Sync and Close return normally in every state of the writer: neither
\* crashes, and on a writer that has no file (never written to, or closed by
\* the dry run) neither returns an error.
C18_SyncCloseSafe ==
    [][\A p \in Procs :
          /\ Sync(p) =>
                (~crashed' /\ (fr.isnil => (ret'.op = "Sync" /\ ~ret'.err)))
          /\ Close(p) =>
                (~crashed' /\ (fr.isnil => (ret'.op = "Close" /\ ~ret'.err)))]_vars

\* C19: the callback is invoked on completed files only: the file a step of
\* the sweep hands to the callback carries no temporary marker and is not
\* the file open for writing.
C19_CallbackOnCompleted ==
    [][(SweepFile /\ wpc' = "callback") =>
          /\ ~HasSuffix(Head(matches), templog)
          /\ ~(hnd.open /\ hnd.at = Head(matches))]_vars

\* C20: a Write whose createFile fails returns count 0 and an error, writes
\* no byte and leaves the writer as it was: the file, its handle, the buffer,
\* the directory, accumulated and the generation are unchanged.
C20_FailedOpenChangesNothing ==
    [][\A p \in Procs, n \in WriteLens :
          (Write(p, n) /\ faults' # faults) =>
             /\ ret' = [op |-> "Write", n |-> 0, err |-> TRUE]
             /\ pc'[p] = "idle"
             /\ disk' = disk
             /\ fr' = fr
             /\ hnd' = hnd
             /\ w' = w
             /\ size' = size
             /\ generation' = generation]_vars

====
